---- MODULE Spec2Model ----
(***************************************************************************)
(* Model of the TP/SL/trailing-stop outcome simulator                      *)
(* (utils/utils_tp_sl_simulation.py :: run_simulation), of the bar loader  *)
(* it calls (utils/utils_technical_indicators.py :: get_ohlc_data) and of  *)
(* the backtest batch driver                                               *)
(* (mda_picks/data_processing_mda_picks_results_backtest.py :: main).      *)
(*                                                                         *)
(* Encoding.  A timestamp t is a number of minutes, t = date * 1440 + tod, *)
(* so that .dt.date is t \div 1440 and .dt.time is t % 1440.  Bar prices   *)
(* are integers; multipliers and the trailing-stop percentage are integer  *)
(* hundredths (1.15 is 115, 0.08 is 8).  A comparison  x >= p * m  of the  *)
(* code is the cross-multiplied  x * 100 >= p * m.  Prices of an outcome   *)
(* are carried in hundredths of a price unit (price * 100), which makes    *)
(* maxima * (1 - ts_pct) exact.  Binary floating-point rounding is not     *)
(* modelled.                                                               *)
(***************************************************************************)
EXTENDS Integers, Sequences, FiniteSets, TLC

(***************************************************************************)
(* Bounds of the model                                                     *)
(***************************************************************************)
MaxBars == 3          \* bars in one provider payload
MaxDate == 2          \* calendar dates 0..MaxDate appear in payloads
MaxRows == 2          \* rows of a batch
MaxPathBars == 4      \* bars in one payload of the three-day scenario
MaxPositions == 2     \* positions the broker reports
MaxExecutions == 2    \* executions the broker reports
MaxCalls == 3         \* calls of run_simulation in one series

(***************************************************************************)
(* Constants of the encoding and of the program                            *)
(***************************************************************************)
MinutesPerDay == 1440
PctScale == 100
MarketOpen == 570           \* "09:30"
MarketClose == 960          \* "16:00"
MorningCutoff == 580        \* "09:40:00"
INF == 999999               \* float('inf')
None == "None"
Unparseable == "not-a-date"

TRADING_DAYS == 10
CALENDAR_DAYS == 20
TP_SL_CONFIG ==
    << [tp_mult |-> 115, sl_mult |-> 90, start_seq |-> 0, end_seq |-> 1],
       [tp_mult |-> 115, sl_mult |-> 90, start_seq |-> 2, end_seq |-> 3],
       [tp_mult |-> 115, sl_mult |-> 90, start_seq |-> 4, end_seq |-> TRADING_DAYS - 1] >>
DefaultTsPct == 8

TARGET_ACCOUNT == "DUO713598"
ForcedSaleDay == 6          \* holding_day >= 6

(***************************************************************************)
(* Input domains                                                           *)
(***************************************************************************)
\* Date 0 is the pick date; dates 1..MaxDate follow it.  Bars are offered at
\* 09:35, 09:40 and 09:45 of date 1, at 09:35 and 09:40 of date 2, at 09:40
\* of every later date, at 09:40 of the pick date and of the date before it
\* (date -1) and, outside market hours, at 09:25 of date 1.
Dates == 0..MaxDate
Tods == {575, 580, 585}
LaterTods == {575, 580}
PreMarket == 565
FilteredTimestamps ==
    {MorningCutoff - MinutesPerDay, MorningCutoff, MinutesPerDay + PreMarket}
Timestamps ==
    {MinutesPerDay + m : m \in Tods}
    \cup {d * MinutesPerDay + m : d \in Dates \cap {2}, m \in LaterTods}
    \cup {d * MinutesPerDay + MorningCutoff : d \in Dates \ {0, 1, 2}}
    \cup FilteredTimestamps

\* open/high/low of a bar
Shapes ==
    { [open |-> 100, high |-> 100, low |-> 100],
      [open |-> 120, high |-> 120, low |-> 120],
      [open |-> 100, high |-> 120, low |-> 85] }
\* the bars that the loader or the pick-date filter drop, and the bars of
\* the dates after date 2, are offered with one shape only
ShapesAt(t) ==
    IF t \in FilteredTimestamps \/ t >= 3 * MinutesPerDay
    THEN {[open |-> 100, high |-> 100, low |-> 100]}
    ELSE Shapes

PickDay == "day0"                \* the pick date as written in the sheet
PickDates == {PickDay, Unparseable}
Limits == 0..2
TsPcts == {8, 20}
Ladders ==
    { << [tp_mult |-> 115, sl_mult |-> 90, start_seq |-> 0, end_seq |-> 1] >>,
      << [tp_mult |-> 115, sl_mult |-> 90, start_seq |-> 1, end_seq |-> 1] >>,
      << [tp_mult |-> 125, sl_mult |-> 80, start_seq |-> 0, end_seq |-> 0],
         [tp_mult |-> 115, sl_mult |-> 90, start_seq |-> 1, end_seq |-> 1] >> }

(***************************************************************************)
(* Generic helpers                                                         *)
(***************************************************************************)
Min2(a, b) == IF a <= b THEN a ELSE b
Max2(a, b) == IF a >= b THEN a ELSE b
SetMin(S) == CHOOSE x \in S : \A y \in S : x <= y
SetMax(S) == CHOOSE x \in S : \A y \in S : x >= y

\* sorted(...) of a set of integers
RECURSIVE SortedSeq(_)
SortedSeq(S) == IF S = {} THEN << >>
                ELSE LET m == SetMin(S) IN << m >> \o SortedSeq(S \ {m})

\* position of x in the sequence s (0 if absent)
IndexOf(s, x) == IF \E i \in 1..Len(s) : s[i] = x
                 THEN SetMin({i \in 1..Len(s) : s[i] = x})
                 ELSE 0

\* lst[:n] for n >= 0
Take(s, n) == SubSeq(s, 1, Min2(n, Len(s)))

\* pd.to_datetime(pick_date).date(): "day0" is date 0; any other text raises
Parseable(s) == s = PickDay
to_date(s) == CASE s = PickDay -> 0

\* .dt.date and .dt.time of a timestamp
DateOf(t) == t \div MinutesPerDay
TimeOf(t) == t % MinutesPerDay

(***************************************************************************)
(* Bar loader: get_ohlc_data                                               *)
(***************************************************************************)
\* df.sort_values("t"): stable insertion of b into the sorted sequence s
InsertByT(s, b) ==
    LET k == Cardinality({i \in 1..Len(s) : s[i].t <= b.t})
    IN SubSeq(s, 1, k) \o << b >> \o SubSeq(s, k + 1, Len(s))

RECURSIVE SortFrom(_, _, _)
SortFrom(s, i, acc) == IF i > Len(s) THEN acc
                       ELSE SortFrom(s, i + 1, InsertByT(acc, s[i]))

SortByT(s) == SortFrom(s, 1, << >>)

\* df.set_index("t").between_time("09:30", "16:00"): both ends inclusive
BetweenTime(s) ==
    LET InHours(b) == TimeOf(b.t) >= MarketOpen /\ TimeOf(b.t) <= MarketClose
    IN SelectSeq(s, InHours)

\* A provider response: [kind, results, cols].  kind is "request_failed"
\* (requests raised), "no_results_key" or "results"; results is the list
\* under data["results"]; cols the keys its entries carry.
\* The value returned: status "none" (None), "raise" (an exception leaves
\* get_ohlc_data) or "frame" with the rows and columns of the DataFrame.
get_ohlc_data(resp) ==
    IF resp.kind = "request_failed" \/ resp.kind = "no_results_key"
    THEN [status |-> "none", rows |-> << >>, cols |-> {}]
    ELSE IF resp.results = << >> \/ "t" \notin resp.cols
    THEN [status |-> "raise", rows |-> << >>, cols |-> {}]      \* KeyError: 't'
    ELSE [status |-> "frame",
          rows   |-> SortByT(BetweenTime(resp.results)),
          cols   |-> {IF c = "o" THEN "open" ELSE IF c = "h" THEN "high"
                      ELSE IF c = "l" THEN "low" ELSE c : c \in resp.cols}]

(***************************************************************************)
(* Provider responses offered to a call                                    *)
(***************************************************************************)
FullCols == {"t", "o", "h", "l"}
NoOpenCols == FullCols \ {"o"}

\* result lists of at most n bars over the timestamps TS, ascending in t
\* (the request asks the provider for "sort": "asc")
ResultLists(TS, n) ==
    UNION { { [i \in 1..Cardinality(T) |->
                 [t    |-> SortedSeq(T)[i],
                  open |-> f[SortedSeq(T)[i]].open,
                  high |-> f[SortedSeq(T)[i]].high,
                  low  |-> f[SortedSeq(T)[i]].low]] :
                  f \in {g \in [T -> Shapes] : \A t \in T : g[t] \in ShapesAt(t)} }
            : T \in {U \in SUBSET TS : Cardinality(U) <= n} }

Responses ==
    { [kind |-> k, results |-> << >>, cols |-> {}] :
          k \in {"request_failed", "no_results_key"} }
    \cup { [kind |-> "results", results |-> r, cols |-> FullCols] :
          r \in ResultLists(Timestamps, MaxBars) }
    \cup { [kind |-> "results", results |-> r, cols |-> NoOpenCols] :
          r \in ResultLists(Timestamps, 1) }

\* the responses offered to the calls of a batch
BatchResponses ==
    { [kind |-> k, results |-> << >>, cols |-> {}] :
          k \in {"request_failed", "no_results_key"} }
    \cup { [kind |-> "results", results |-> r, cols |-> FullCols] :
          r \in ResultLists(Timestamps, 1) }

(***************************************************************************)
(* Path preparer: run_simulation, lines 27-59                              *)
(***************************************************************************)
\* df_ohlc['date_only'] = pd.to_datetime(df_ohlc['t']).dt.date
WithDateOnly(rows) ==
    [i \in 1..Len(rows) |->
        [t |-> rows[i].t, open |-> rows[i].open, high |-> rows[i].high,
         low |-> rows[i].low, date_only |-> DateOf(rows[i].t)]]

ExcludePickDate_Inclusive(rows, pick_date) ==
    LET After(r) == r.date_only >= pick_date
    IN SelectSeq(rows, After)

\* df_ohlc[df_ohlc['date_only'] > pick_dt.date()]
ExcludePickDate(rows, pick_date) ==
    LET After(r) == r.date_only > pick_date
    IN SelectSeq(rows, After)

\* sorted(df_ohlc['date_only'].unique())
unique_days(rows) == SortedSeq({rows[i].date_only : i \in 1..Len(rows)})

TargetDays_OneMore(rows, trading_days_limit) ==
    Take(unique_days(rows), trading_days_limit + 1)

\* unique_days[:trading_days_limit]
TargetDays(rows, trading_days_limit) == Take(unique_days(rows), trading_days_limit)

\* df_ohlc[df_ohlc['date_only'].isin(target_days)]
InTargetDays(rows, days) ==
    LET Kept(r) == IndexOf(days, r.date_only) > 0
    IN SelectSeq(rows, Kept)

MorningExclusion_EveryDay(rows, first_day) ==
    LET Kept(r) == ~ (TimeOf(r.t) < MorningCutoff)
    IN SelectSeq(rows, Kept)

\* the rows left once the bars before 09:40 of first_day are dropped
MorningExclusion(rows, first_day) ==
    LET Kept(r) == ~ (r.date_only = first_day /\ TimeOf(r.t) < MorningCutoff)
    IN SelectSeq(rows, Kept)

CumCount_Global(rows, i) == i - 1

\* df.groupby('date_only').cumcount()
CumCount(rows, i) ==
    Cardinality({j \in 1..(i - 1) : rows[j].date_only = rows[i].date_only})

Sequenced_OneBased(rows, days) ==
    [i \in 1..Len(rows) |->
        [t |-> rows[i].t, open |-> rows[i].open, high |-> rows[i].high,
         low |-> rows[i].low, date_only |-> rows[i].date_only,
         trading_timestamp_sequence |-> i - 1,
         trading_day_sequence       |-> IndexOf(days, rows[i].date_only) - 1,
         trading_interval_sequence  |-> CumCount(rows, i) + 1,
         is_tp_breached |-> 0,
         is_sl_breached |-> 0]]

\* the three sequence columns, and the two breach columns set to 0
Sequenced(rows, days) ==
    [i \in 1..Len(rows) |->
        [t |-> rows[i].t, open |-> rows[i].open, high |-> rows[i].high,
         low |-> rows[i].low, date_only |-> rows[i].date_only,
         trading_timestamp_sequence |-> i - 1,
         trading_day_sequence       |-> IndexOf(days, rows[i].date_only) - 1,
         trading_interval_sequence  |-> CumCount(rows, i),
         is_tp_breached |-> 0,
         is_sl_breached |-> 0]]

(***************************************************************************)
(* Outcome resolver: run_simulation, lines 61-122                          *)
(***************************************************************************)
ApplyRule_NoMask(rows, rule, buy_price) ==
    [i \in 1..Len(rows) |->
        LET tp == rows[i].high * PctScale >= buy_price * rule.tp_mult
            sl == rows[i].low * PctScale <= buy_price * rule.sl_mult
        IN [rows[i] EXCEPT !.is_tp_breached = IF tp THEN 1 ELSE @,
                           !.is_sl_breached = IF sl THEN 1 ELSE @]]

\* one iteration of the loop over tp_sl_list
ApplyRule(rows, rule, buy_price) ==
    [i \in 1..Len(rows) |->
        LET mask == /\ rows[i].trading_day_sequence >= rule.start_seq
                    /\ rows[i].trading_day_sequence <= rule.end_seq
            tp   == mask /\ rows[i].high * PctScale >= buy_price * rule.tp_mult
            sl   == mask /\ rows[i].low * PctScale <= buy_price * rule.sl_mult
        IN [rows[i] EXCEPT !.is_tp_breached = IF tp THEN 1 ELSE @,
                           !.is_sl_breached = IF sl THEN 1 ELSE @]]

MarkBreaches_LastRuleOnly(rows, tp_sl_list, buy_price) ==
    IF tp_sl_list = << >> THEN rows
    ELSE ApplyRule(rows, tp_sl_list[Len(tp_sl_list)], buy_price)

\* the loop of lines 66-71
RECURSIVE MarkBreaches(_, _, _)
MarkBreaches(rows, tp_sl_list, buy_price) ==
    IF tp_sl_list = << >> THEN rows
    ELSE MarkBreaches(ApplyRule(rows, Head(tp_sl_list), buy_price),
                      Tail(tp_sl_list), buy_price)

UpdateMaxima_DayReset(m, row) ==
    IF row.trading_interval_sequence = 0 THEN row.high ELSE Max2(m, row.high)

\* maxima after the row has been visited
UpdateMaxima(m, row) ==
    IF row.trading_timestamp_sequence = 0 THEN row.high ELSE Max2(m, row.high)

TriggerSellPrice_NoPct(m, ts_pct) == m * PctScale

\* maxima * (1 - ts_pct), in hundredths
TriggerSellPrice(m, ts_pct) == m * (PctScale - ts_pct)

TsBreached_Open(row, m, ts_pct) == row.open * PctScale <= TriggerSellPrice(m, ts_pct)

\* row['low'] <= trigger_sell_price
TsBreached(row, m, ts_pct) == row.low * PctScale <= TriggerSellPrice(m, ts_pct)

EarliestTp_Last(rows) ==
    LET hits == {i \in 1..Len(rows) : rows[i].is_tp_breached = 1}
    IN IF hits # {} THEN SetMax({rows[i].trading_timestamp_sequence : i \in hits}) ELSE INF

\* tp_hits['trading_timestamp_sequence'].min(), or float('inf')
EarliestTp(rows) ==
    LET hits == {i \in 1..Len(rows) : rows[i].is_tp_breached = 1}
    IN IF hits # {} THEN SetMin({rows[i].trading_timestamp_sequence : i \in hits}) ELSE INF

\* sl_hits['trading_timestamp_sequence'].min(), or float('inf')
EarliestSl(rows) ==
    LET hits == {i \in 1..Len(rows) : rows[i].is_sl_breached = 1}
    IN IF hits # {} THEN SetMin({rows[i].trading_timestamp_sequence : i \in hits}) ELSE INF

EarliestTs_Never(breach) == INF

\* ts_breach_row['trading_timestamp_sequence'], or float('inf')
EarliestTs(breach) == IF breach # << >> THEN breach[1].trading_timestamp_sequence ELSE INF

FirstEvent_NoTs(tp, sl, ts) == Min2(tp, sl)

\* min(earliest_tp, earliest_sl, earliest_ts)
FirstEvent(tp, sl, ts) == Min2(Min2(tp, sl), ts)

RowAtSeq_First(rows, seq) == rows[1]

\* df[df['trading_timestamp_sequence'] == seq].iloc[0]
RowAtSeq(rows, seq) ==
    rows[SetMin({i \in 1..Len(rows) : rows[i].trading_timestamp_sequence = seq})]

HoldingExitRow_LastBar(rows, trading_days_limit) == rows[Len(rows)]

\* the exit row of the time-based exit
HoldingExitRow(rows, trading_days_limit) ==
    LET cand == {i \in 1..Len(rows) :
                    /\ rows[i].trading_day_sequence = trading_days_limit - 1
                    /\ rows[i].trading_interval_sequence = 0}
    IN IF cand # {} THEN rows[SetMin(cand)] ELSE rows[Len(rows)]

Trigger_SlFirst(tp, sl, ts) ==
    LET first_event == FirstEvent(tp, sl, ts)
    IN IF first_event = INF THEN "End of Holding Period"
       ELSE IF first_event = sl THEN "Stop Loss"
       ELSE IF first_event = tp THEN "Take Profit"
       ELSE "Trailing Stop"

\* which branch of step 7 is taken
Trigger(tp, sl, ts) ==
    LET first_event == FirstEvent(tp, sl, ts)
    IN IF first_event = INF THEN "End of Holding Period"
       ELSE IF first_event = tp THEN "Take Profit"
       ELSE IF first_event = sl THEN "Stop Loss"
       ELSE "Trailing Stop"

ExitRow_FallbackFirst(rows, breach, trading_days_limit) ==
    LET tp == EarliestTp(rows)
        sl == EarliestSl(rows)
        trg == Trigger(tp, sl, EarliestTs(breach))
        cand == {i \in 1..Len(rows) :
                    /\ rows[i].trading_day_sequence = trading_days_limit - 1
                    /\ rows[i].trading_interval_sequence = 0}
    IN IF trg = "End of Holding Period"
       THEN (IF cand # {} THEN HoldingExitRow(rows, trading_days_limit) ELSE rows[1])
       ELSE IF trg = "Take Profit" THEN RowAtSeq(rows, tp)
       ELSE IF trg = "Stop Loss" THEN RowAtSeq(rows, sl)
       ELSE breach[1]

\* exit_row of lines 99-112
ExitRow(rows, breach, trading_days_limit) ==
    LET tp == EarliestTp(rows)
        sl == EarliestSl(rows)
        trg == Trigger(tp, sl, EarliestTs(breach))
    IN IF trg = "End of Holding Period" THEN HoldingExitRow(rows, trading_days_limit)
       ELSE IF trg = "Take Profit" THEN RowAtSeq(rows, tp)
       ELSE IF trg = "Stop Loss" THEN RowAtSeq(rows, sl)
       ELSE breach[1]

SellPrice_TsAtLow(rows, breach, trading_days_limit) ==
    LET trg == Trigger(EarliestTp(rows), EarliestSl(rows), EarliestTs(breach))
        exit_row == ExitRow(rows, breach, trading_days_limit)
    IN IF trg = "End of Holding Period" THEN exit_row.open * PctScale
       ELSE IF trg = "Take Profit" THEN exit_row.high * PctScale
       ELSE exit_row.low * PctScale

\* sell price in hundredths
SellPrice(rows, breach, trading_days_limit) ==
    LET trg == Trigger(EarliestTp(rows), EarliestSl(rows), EarliestTs(breach))
        exit_row == ExitRow(rows, breach, trading_days_limit)
    IN IF trg = "End of Holding Period" THEN exit_row.open * PctScale
       ELSE IF trg = "Take Profit" THEN exit_row.high * PctScale
       ELSE IF trg = "Stop Loss" THEN exit_row.low * PctScale
       ELSE breach[1].ts_sell_price

\* the dictionaries returned
ErrorOutcome_WithTrigger(msg) ==
    ("error" :> msg) @@ ("trigger" :> "End of Holding Period")

ErrorOutcome(msg) == [k \in {"error"} |-> msg]

OutcomeDict_ReturnOnSell(buy_price, sell_price, buy_timestamp, exit_row, trigger) ==
    ("buy price" :> buy_price * PctScale)
    @@ ("sell price" :> sell_price)
    @@ ("returns_percentage" :>
           [num |-> (sell_price - buy_price * PctScale) * 100,
            den |-> sell_price])
    @@ ("buy_timestamp" :> buy_timestamp)
    @@ ("sell_timestamp" :> exit_row.t)
    @@ ("trading_timestamp_sequence" :> exit_row.trading_timestamp_sequence)
    @@ ("trading_day_sequence" :> exit_row.trading_day_sequence)
    @@ ("trading_interval_sequence" :> exit_row.trading_interval_sequence)
    @@ ("trigger" :> trigger)
    @@ ("error" :> None)

\* the dictionary of lines 114-122; returns_percentage is the fraction
\* num / den
OutcomeDict(buy_price, sell_price, buy_timestamp, exit_row, trigger) ==
    ("buy price" :> buy_price * PctScale)
    @@ ("sell price" :> sell_price)
    @@ ("returns_percentage" :>
           [num |-> (sell_price - buy_price * PctScale) * 100,
            den |-> buy_price * PctScale])
    @@ ("buy_timestamp" :> buy_timestamp)
    @@ ("sell_timestamp" :> exit_row.t)
    @@ ("trading_timestamp_sequence" :> exit_row.trading_timestamp_sequence)
    @@ ("trading_day_sequence" :> exit_row.trading_day_sequence)
    @@ ("trading_interval_sequence" :> exit_row.trading_interval_sequence)
    @@ ("trigger" :> trigger)
    @@ ("error" :> None)

SuccessOutcome_NoSellTimestamp(rows, breach, trading_days_limit, buy_price, buy_timestamp) ==
    LET d == OutcomeDict(buy_price, SellPrice(rows, breach, trading_days_limit),
                         buy_timestamp, ExitRow(rows, breach, trading_days_limit),
                         Trigger(EarliestTp(rows), EarliestSl(rows), EarliestTs(breach)))
    IN [k \in DOMAIN d \ {"sell_timestamp"} |-> d[k]]

SuccessOutcome(rows, breach, trading_days_limit, buy_price, buy_timestamp) ==
    OutcomeDict(buy_price, SellPrice(rows, breach, trading_days_limit),
                buy_timestamp, ExitRow(rows, breach, trading_days_limit),
                Trigger(EarliestTp(rows), EarliestSl(rows), EarliestTs(breach)))

(***************************************************************************)
(* State                                                                   *)
(***************************************************************************)
VARIABLES
    pc,             \* position in run_simulation: "idle", "fetch", "prepare",
                    \* "flag", "scan", "resolve", "returned", "raised"
    args,           \* pick_date, tp_sl_list, trading_days_limit, ts_pct
    loaded,         \* what get_ohlc_data gave back to line 16
    df_ohlc,        \* the frame after line 30
    cols,           \* its columns
    target_days,
    df,             \* the sequenced path
    buy_price,
    buy_timestamp,
    maxima,
    ts_breach_row,  \* << >> for None, else << row >>
    scan_pos,       \* rows visited by the trailing-stop loop
    outcome,        \* the dictionary returned
    d_pc,           \* position in main: "none" (no driver), "start", "loop",
                    \* "in_call", "done", "crashed"
    rows,           \* the de-duplicated frame of line 61
    idx,            \* rows whose iteration has completed
    final_results,
    exported,       \* the frame handed to export_data
    log,            \* what main printed
    fs_pc,          \* position in execute_forced_sales_window: "none" (not
                    \* running), "start", "loop", "done"
    positions,      \* ib.positions()
    executions,     \* ib.reqExecutions(ExecutionFilter())
    buy_dates,      \* the dictionary of get_positions_with_buy_dates
    today,
    pos_idx,        \* positions whose iteration has completed
    orders,         \* the orders handed to ib.placeOrder
    ref_call,       \* << >>, else << the first completed call of a series >>
    calls           \* calls of run_simulation started in a series

simVars == << pc, args, loaded, df_ohlc, cols, target_days, df, buy_price,
              buy_timestamp, maxima, ts_breach_row, scan_pos, outcome >>
locals == << loaded, df_ohlc, cols, target_days, df, buy_price, buy_timestamp,
             maxima, ts_breach_row, scan_pos >>
driverVars == << d_pc, rows, idx, final_results, exported, log >>
brokerVars == << fs_pc, positions, executions, buy_dates, today, pos_idx, orders >>
callVars == << ref_call, calls >>
vars == << pc, args, loaded, df_ohlc, cols, target_days, df, buy_price,
           buy_timestamp, maxima, ts_breach_row, scan_pos, outcome,
           d_pc, rows, idx, final_results, exported, log,
           fs_pc, positions, executions, buy_dates, today, pos_idx, orders,
           ref_call, calls >>

\* no series of calls is recorded
CallsIdle ==
    /\ ref_call = << >>
    /\ calls = 0

\* execute_forced_sales_window is not running
BrokerIdle ==
    /\ fs_pc = "none"
    /\ positions = << >>
    /\ executions = << >>
    /\ buy_dates = << >>
    /\ today = 0
    /\ pos_idx = 0
    /\ orders = << >>

NoArgs == [pick_date |-> PickDay, tp_sl_list |-> << >>, trading_days_limit |-> 0, ts_pct |-> 0]
NoOutcome == [k \in {} |-> None]

\* nothing is live outside a call
NotLoaded == [status |-> "uncalled", rows |-> << >>, cols |-> {}]

LocalsCleared ==
    /\ loaded = NotLoaded
    /\ df_ohlc = << >>
    /\ cols = {}
    /\ target_days = << >>
    /\ df = << >>
    /\ buy_price = 0
    /\ buy_timestamp = 0
    /\ maxima = 0
    /\ ts_breach_row = << >>
    /\ scan_pos = 0

SimIdle ==
    /\ pc = "idle"
    /\ args = NoArgs
    /\ outcome = NoOutcome
    /\ LocalsCleared

\* the frame of the call is popped
PopFrame ==
    /\ pc' = "idle"
    /\ args' = NoArgs
    /\ outcome' = NoOutcome
    /\ loaded' = NotLoaded
    /\ df_ohlc' = << >>
    /\ cols' = {}
    /\ target_days' = << >>
    /\ df' = << >>
    /\ buy_price' = 0
    /\ buy_timestamp' = 0
    /\ maxima' = 0
    /\ ts_breach_row' = << >>
    /\ scan_pos' = 0

ArgSpace ==
    [pick_date : PickDates, tp_sl_list : Ladders,
     trading_days_limit : Limits, ts_pct : TsPcts]

(***************************************************************************)
(* run_simulation                                                          *)
(***************************************************************************)
\* `return d`
Return(d) ==
    /\ pc' = "returned"
    /\ outcome' = d

\* an exception leaves run_simulation
Raise ==
    /\ pc' = "raised"
    /\ outcome' = NoOutcome

\* a call with arguments a
Call ==
    /\ d_pc = "none"
    /\ pc = "idle"
    /\ \E a \in ArgSpace : args' = a
    /\ pc' = "fetch"
    /\ UNCHANGED << locals, outcome, driverVars, brokerVars, callVars >>

\* lines 12-33 against the provider response resp
FetchWith(resp) ==
    IF ~ Parseable(args.pick_date)
    THEN Raise /\ UNCHANGED << loaded, df_ohlc, cols >>         \* line 12
    ELSE LET r == get_ohlc_data(resp)
             kept == SortByT(ExcludePickDate(WithDateOnly(r.rows), to_date(args.pick_date)))
         IN /\ loaded' = r
            /\ IF r.status = "raise"
               THEN Raise /\ UNCHANGED << df_ohlc, cols >>      \* line 16
               ELSE IF r.status = "none" \/ r.rows = << >>
               THEN /\ Return(ErrorOutcome("No OHLC data returned from Polygon"))
                    /\ UNCHANGED << df_ohlc, cols >>
               ELSE IF kept = << >>
               THEN /\ Return(ErrorOutcome("No data available after the pick date"))
                    /\ UNCHANGED << df_ohlc, cols >>
               ELSE /\ df_ohlc' = kept
                    /\ cols' = r.cols \cup {"date_only"}
                    /\ pc' = "prepare"
                    /\ UNCHANGED outcome

Fetch ==
    /\ pc = "fetch"
    /\ \E resp \in (IF d_pc = "none" THEN Responses ELSE BatchResponses) : FetchWith(resp)
    /\ UNCHANGED << args, target_days, df, buy_price, buy_timestamp,
                    maxima, ts_breach_row, scan_pos, driverVars, brokerVars, callVars >>

\* lines 36-59
Prepare ==
    /\ pc = "prepare"
    /\ LET days == TargetDays(df_ohlc, args.trading_days_limit)
           kept == InTargetDays(df_ohlc, days)
       IN IF days = << >>
          THEN \* target_days[0]
               /\ Return(ErrorOutcome("Logic error: list index out of range"))
               /\ UNCHANGED << target_days, df, buy_price, buy_timestamp >>
          ELSE LET path == MorningExclusion(kept, days[1])
               IN /\ target_days' = days
                  /\ IF path = << >>
                     THEN /\ Return(ErrorOutcome("Insufficient data after morning exclusion"))
                          /\ UNCHANGED << df, buy_price, buy_timestamp >>
                     ELSE /\ df' = Sequenced(path, days)
                          /\ IF "open" \notin cols
                             THEN \* buy_row['open']
                                  /\ Return(ErrorOutcome("Logic error: 'open'"))
                                  /\ UNCHANGED << buy_price, buy_timestamp >>
                             ELSE /\ buy_price' = path[1].open
                                  /\ buy_timestamp' = path[1].t
                                  /\ pc' = "flag"
                                  /\ UNCHANGED outcome
    /\ UNCHANGED << args, loaded, df_ohlc, cols, maxima, ts_breach_row, scan_pos, driverVars, brokerVars, callVars >>

Flag_NoInit ==
    /\ pc = "flag"
    /\ df' = MarkBreaches(df, args.tp_sl_list, buy_price)
    /\ scan_pos' = 0
    /\ pc' = "scan"
    /\ UNCHANGED << args, loaded, df_ohlc, cols, target_days, buy_price, buy_timestamp,
                    maxima, ts_breach_row, outcome, driverVars, brokerVars, callVars >>

\* lines 62-71
Flag ==
    /\ pc = "flag"
    /\ maxima' = 0
    /\ ts_breach_row' = << >>
    /\ df' = MarkBreaches(df, args.tp_sl_list, buy_price)
    /\ scan_pos' = 0
    /\ pc' = "scan"
    /\ UNCHANGED << args, loaded, df_ohlc, cols, target_days, buy_price, buy_timestamp,
                    outcome, driverVars, brokerVars, callVars >>

\* one iteration of the loop of lines 74-86
ScanStep ==
    /\ pc = "scan"
    /\ scan_pos < Len(df)
    /\ LET row == df[scan_pos + 1]
           m == UpdateMaxima(maxima, row)
       IN /\ maxima' = m
          /\ scan_pos' = scan_pos + 1
          /\ IF TsBreached(row, m, args.ts_pct)
             THEN /\ ts_breach_row' = << row @@ [ts_sell_price |-> TriggerSellPrice(m, args.ts_pct)] >>
                  /\ pc' = "resolve"                            \* break
             ELSE /\ UNCHANGED ts_breach_row
                  /\ pc' = IF scan_pos + 1 = Len(df) THEN "resolve" ELSE "scan"
    /\ UNCHANGED << args, loaded, df_ohlc, cols, target_days, df, buy_price, buy_timestamp,
                    outcome, driverVars, brokerVars, callVars >>

\* lines 88-122
Resolve ==
    /\ pc = "resolve"
    /\ Return(SuccessOutcome(df, ts_breach_row, args.trading_days_limit,
                             buy_price, buy_timestamp))
    /\ UNCHANGED << args, locals, driverVars, brokerVars, callVars >>

(***************************************************************************)
(* One call of run_simulation                                              *)
(***************************************************************************)
Init ==
    /\ SimIdle
    /\ BrokerIdle
    /\ CallsIdle
    /\ d_pc = "none"
    /\ rows = << >>
    /\ idx = 0
    /\ final_results = << >>
    /\ exported = << >>
    /\ log = << >>

Next == Call \/ Fetch \/ Prepare \/ Flag \/ ScanStep \/ Resolve

Spec == Init /\ [][Next]_vars


(***************************************************************************)
(* Vocabulary of the properties.  These definitions restate the conditions *)
(* directly on the loaded bars and on the sequenced path; they do not use  *)
(* the operators of the resolver.                                          *)
(***************************************************************************)
Returned == pc = "returned"
Succeeded == pc = "returned" /\ "trigger" \in DOMAIN outcome
Failed == pc = "returned" /\ DOMAIN outcome = {"error"}
TriggerKinds == {"Take Profit", "Stop Loss", "Trailing Stop", "End of Holding Period"}
SuccessKeys ==
    {"buy price", "sell price", "returns_percentage", "buy_timestamp",
     "sell_timestamp", "trading_timestamp_sequence", "trading_day_sequence",
     "trading_interval_sequence", "trigger", "error"}

LoadedBars == {loaded.rows[i] : i \in 1..Len(loaded.rows)}
BarsAfterPick == {b \in LoadedBars : DateOf(b.t) > to_date(args.pick_date)}
DatesAfterPick == {DateOf(b.t) : b \in BarsAfterPick}
\* the first trading_days_limit distinct dates after the pick date
RetainedDates ==
    {d \in DatesAfterPick :
        Cardinality({e \in DatesAfterPick : e < d}) < args.trading_days_limit}
\* the bars of the retained dates, less the first date's bars before 09:40
ExpectedPath ==
    {b \in BarsAfterPick :
        /\ DateOf(b.t) \in RetainedDates
        /\ ~ (DateOf(b.t) = SetMin(RetainedDates) /\ TimeOf(b.t) < MorningCutoff)}
DayRank(d) == Cardinality({e \in RetainedDates : e < d})

PathIdx == 1..Len(df)
PathBars == {[t |-> df[i].t, open |-> df[i].open, high |-> df[i].high, low |-> df[i].low] : i \in PathIdx}
TpBreachAt(i) ==
    \E k \in 1..Len(args.tp_sl_list) :
        /\ df[i].trading_day_sequence >= args.tp_sl_list[k].start_seq
        /\ df[i].trading_day_sequence <= args.tp_sl_list[k].end_seq
        /\ df[i].high * PctScale >= buy_price * args.tp_sl_list[k].tp_mult
SlBreachAt(i) ==
    \E k \in 1..Len(args.tp_sl_list) :
        /\ df[i].trading_day_sequence >= args.tp_sl_list[k].start_seq
        /\ df[i].trading_day_sequence <= args.tp_sl_list[k].end_seq
        /\ df[i].low * PctScale <= buy_price * args.tp_sl_list[k].sl_mult
PeakUpTo(i) == SetMax({df[j].high : j \in 1..i})
TsBreachAt(i) == df[i].low * PctScale <= PeakUpTo(i) * (PctScale - args.ts_pct)
BreachBars == {i \in PathIdx : TpBreachAt(i) \/ SlBreachAt(i) \/ TsBreachAt(i)}
ExitIdx == outcome["trading_timestamp_sequence"] + 1

(***************************************************************************)
(* Properties                                                              *)
(***************************************************************************)
\* C1: when some bar of the sequenced path breaches TP, SL or the trailing
\* stop, the exit bar reported is the earliest bar at which any of the three
\* breach conditions holds; no earlier bar breaches.
C1_ExitIsEarliestBreach ==
    (Succeeded /\ BreachBars # {}) =>
        /\ ExitIdx = SetMin(BreachBars)
        /\ \A i \in PathIdx : i < ExitIdx => i \notin BreachBars

\* a trailing-stop breach precedes a later take-profit breach, and the exit
\* is not the entry bar
C1_Witness ==
    /\ Succeeded
    /\ ExitIdx > 1
    /\ TsBreachAt(ExitIdx) /\ ~ TpBreachAt(ExitIdx) /\ ~ SlBreachAt(ExitIdx)
    /\ \E j \in PathIdx : j > ExitIdx /\ TpBreachAt(j)

\* C2: a successful outcome reports one trigger kind; at the earliest
\* breaching bar Take Profit is reported if TP breaches there, else Stop
\* Loss if SL breaches there, else Trailing Stop.
C2_TieBreakOrder ==
    Succeeded =>
        /\ outcome["trigger"] \in TriggerKinds
        /\ BreachBars # {} =>
             LET e == SetMin(BreachBars)
             IN /\ TpBreachAt(e) => outcome["trigger"] = "Take Profit"
                /\ (~ TpBreachAt(e) /\ SlBreachAt(e)) => outcome["trigger"] = "Stop Loss"
                /\ (~ TpBreachAt(e) /\ ~ SlBreachAt(e)) => outcome["trigger"] = "Trailing Stop"

\* all three kinds breach at the earliest bar and Take Profit is reported
C2_Witness ==
    /\ Succeeded
    /\ BreachBars # {}
    /\ TpBreachAt(SetMin(BreachBars))
    /\ SlBreachAt(SetMin(BreachBars))
    /\ TsBreachAt(SetMin(BreachBars))
    /\ outcome["trigger"] = "Take Profit"

\* C3: every successful outcome has buy price and buy timestamp equal to the
\* open and timestamp of the first bar at or after 09:40 on the first
\* distinct calendar date after the pick date.
C3_BuyAtFirstDayAfterCutoff ==
    Succeeded =>
        LET first_day == SetMin(DatesAfterPick)
            cands == {b \in BarsAfterPick :
                         DateOf(b.t) = first_day /\ TimeOf(b.t) >= MorningCutoff}
        IN /\ cands # {}
           /\ \E b \in cands :
                 /\ \A c \in cands : b.t <= c.t
                 /\ outcome["buy price"] = b.open * PctScale
                 /\ outcome["buy_timestamp"] = b.t

\* C4: the sequenced path is exactly the bars of the first trading_days_limit
\* distinct dates after the pick date (less the excluded opening minutes);
\* every bar of it, and the exit bar, has trading_day_sequence at most
\* trading_days_limit - 1.
C4_DayLimit ==
    (pc \in {"flag", "scan", "resolve", "returned"} /\ df # << >>) =>
        LET retained == RetainedDates
        IN /\ PathBars = ExpectedPath
           /\ \A i \in PathIdx :
                 /\ df[i].trading_day_sequence <= args.trading_days_limit - 1
                 /\ df[i].trading_day_sequence =
                        Cardinality({e \in retained : e < DateOf(df[i].t)})
           /\ Succeeded => outcome["trading_day_sequence"] <= args.trading_days_limit - 1

\* the loader delivered a bar of a date beyond the retained ones
C4_Witness ==
    /\ Succeeded
    /\ \E b \in BarsAfterPick : DateOf(b.t) \notin RetainedDates

\* C5: at every bar the trailing-stop scan visits, the running maximum is
\* the maximum high of the path up to and including that bar, and it never
\* decreases.
C5_RunningMaximum ==
    [][(pc = "scan" /\ scan_pos' = scan_pos + 1) =>
          /\ maxima' = SetMax({df[j].high : j \in 1..scan_pos'})
          /\ maxima' >= maxima]_vars

\* the scan has crossed a day boundary onto a bar whose high is below the
\* running maximum
C5_Witness ==
    /\ pc \in {"scan", "resolve"}
    /\ scan_pos >= 2
    /\ df[scan_pos].trading_day_sequence >= 1
    /\ df[scan_pos].trading_interval_sequence = 0
    /\ df[scan_pos].high < maxima

\* C6 as stated: with no breach in the retained window the trigger is "End
\* of Holding Period" and the sell price is the open of the first bar of the
\* last retained trading day.
C6_SellAtFirstBarOfLastRetainedDay ==
    (Succeeded /\ BreachBars = {}) =>
        /\ outcome["trigger"] = "End of Holding Period"
        /\ \E i \in PathIdx :
              /\ df[i].date_only = SetMax(RetainedDates)
              /\ \A j \in PathIdx : j < i => df[j].date_only # df[i].date_only
              /\ outcome["sell price"] = df[i].open * PctScale

\* C6 amended: with no breach the trigger is "End of Holding Period"; the
\* sell price is the open of the first bar of the day whose
\* trading_day_sequence is trading_days_limit - 1 when the path has such a
\* bar, and the open of the last bar of the path otherwise.
C6_HoldingPeriodExit ==
    (Succeeded /\ BreachBars = {}) =>
        /\ outcome["trigger"] = "End of Holding Period"
        /\ LET firsts == {i \in PathIdx :
                            /\ DayRank(DateOf(df[i].t)) = args.trading_days_limit - 1
                            /\ \A j \in PathIdx : j < i => DateOf(df[j].t) # DateOf(df[i].t)}
           IN IF firsts # {}
              THEN \A i \in firsts : outcome["sell price"] = df[i].open * PctScale
              ELSE outcome["sell price"] = df[Len(df)].open * PctScale

\* no breach, the first bar of day trading_days_limit - 1 is the exit and a
\* later bar with another open follows it
C6_Witness ==
    /\ Succeeded
    /\ BreachBars = {}
    /\ outcome["trigger"] = "End of Holding Period"
    /\ outcome["trading_day_sequence"] = args.trading_days_limit - 1
    /\ outcome["trading_interval_sequence"] = 0
    /\ ExitIdx < Len(df)
    /\ df[Len(df)].open # df[ExitIdx].open

\* C7: no call of run_simulation ends with an exception; every failure is
\* returned as an error-tagged outcome.
C7_NoExceptionLeaves == pc # "raised"

\* C8: when the loader gives back None or an empty frame, or no bar is left
\* after filtering, the call returns (does not raise) an outcome that has
\* an error and no other field.
C8_NoDataIsErrorOnly ==
    (/\ pc \in {"returned", "raised"}
     /\ \/ loaded.status = "none"
        \/ loaded.status = "frame" /\ (loaded.rows = << >> \/ ExpectedPath = {}))
    => /\ Failed
       /\ outcome["error"] # None

\* bars were loaded, none survives the filters, and the call has returned
C8_Witness ==
    /\ Failed
    /\ loaded.status = "frame"
    /\ loaded.rows # << >>
    /\ BarsAfterPick # {}
    /\ ExpectedPath = {}
    /\ args.trading_days_limit > 0

\* C10: a returned value is either a failure with a non-null error and no
\* other field, or a success with a null error, every outcome field and a
\* trigger of the four kinds.
C10_TwoShapes ==
    Returned =>
        \/ /\ DOMAIN outcome = {"error"}
           /\ outcome["error"] # None
        \/ /\ DOMAIN outcome = SuccessKeys
           /\ outcome["error"] = None
           /\ outcome["trigger"] \in TriggerKinds

\* a success by trailing stop
C10_Witness ==
    /\ Succeeded
    /\ outcome["trigger"] = "Trailing Stop"
    /\ outcome["error"] = None

\* C11: the sell price is the exit bar's high for Take Profit, its low for
\* Stop Loss and, for Trailing Stop, the running maximum up to the breach bar
\* times (1 - ts_pct), not that bar's low; the sell timestamp and the three
\* sequence indices are those of the exit bar, the earliest breaching bar.
C11_SellPriceByTrigger ==
    (Succeeded /\ outcome["trigger"] # "End of Holding Period") =>
        /\ BreachBars # {}
        /\ LET e == SetMin(BreachBars)
           IN /\ outcome["trigger"] = "Take Profit" =>
                    outcome["sell price"] = df[e].high * PctScale
              /\ outcome["trigger"] = "Stop Loss" =>
                    outcome["sell price"] = df[e].low * PctScale
              /\ outcome["trigger"] = "Trailing Stop" =>
                    outcome["sell price"] = PeakUpTo(e) * (PctScale - args.ts_pct)
              /\ outcome["sell_timestamp"] = df[e].t
              /\ outcome["trading_timestamp_sequence"] = e - 1
              /\ outcome["trading_day_sequence"] = DayRank(DateOf(df[e].t))
              /\ outcome["trading_interval_sequence"] =
                    Cardinality({j \in 1..(e - 1) : DateOf(df[j].t) = DateOf(df[e].t)})

\* a trailing-stop exit, not at the entry bar, whose sell price differs from
\* the low of the breach bar
C11_Witness ==
    /\ Succeeded
    /\ outcome["trigger"] = "Trailing Stop"
    /\ ExitIdx > 1
    /\ outcome["sell price"] # df[ExitIdx].low * PctScale
    /\ outcome["trading_interval_sequence"] > 0

\* C12: returns_percentage is (sell price / buy price - 1) * 100 of the two
\* prices reported in the same outcome: num / den equals
\* (sell - buy) * 100 / buy, compared by cross-multiplication with the
\* factor 100 taken out of num.
C12_ReturnsFromReportedPrices ==
    Succeeded =>
        LET r == outcome["returns_percentage"]
        IN /\ r.den # 0
           /\ outcome["buy price"] # 0
           /\ r.num % 100 = 0
           /\ (r.num \div 100) * outcome["buy price"]
                 = (outcome["sell price"] - outcome["buy price"]) * r.den

\* a loss: the sell price is below the buy price
C12_Witness ==
    /\ Succeeded
    /\ outcome["sell price"] < outcome["buy price"]
    /\ outcome["returns_percentage"].num < 0

\* C18: a bar is flagged as a TP (SL) breach exactly when some rule whose
\* inclusive day range contains the bar's trading_day_sequence has
\* high >= buy price * tp_mult (low <= buy price * sl_mult), the buy price
\* being the single entry price; a bar covered by no rule is never flagged
\* and never the exit of a Take Profit or Stop Loss.
C18_FlagsFollowRules ==
    (pc \in {"scan", "resolve"} \/ Succeeded) =>
        /\ \A i \in PathIdx :
              /\ df[i].is_tp_breached = 1 <=> TpBreachAt(i)
              /\ df[i].is_sl_breached = 1 <=> SlBreachAt(i)
              /\ (\A k \in 1..Len(args.tp_sl_list) :
                     \/ df[i].trading_day_sequence < args.tp_sl_list[k].start_seq
                     \/ df[i].trading_day_sequence > args.tp_sl_list[k].end_seq)
                  => df[i].is_tp_breached = 0 /\ df[i].is_sl_breached = 0
        /\ buy_price = df[1].open
        /\ (Succeeded /\ outcome["trigger"] \in {"Take Profit", "Stop Loss"}) =>
              \E k \in 1..Len(args.tp_sl_list) :
                  /\ outcome["trading_day_sequence"] >= args.tp_sl_list[k].start_seq
                  /\ outcome["trading_day_sequence"] <= args.tp_sl_list[k].end_seq

\* a bar of a day no rule covers has a high over the TP level and is not
\* flagged, and a later bar of a covered day is flagged
C18_Witness ==
    /\ pc = "scan"
    /\ \E i \in PathIdx :
          /\ \A k \in 1..Len(args.tp_sl_list) :
                df[i].trading_day_sequence < args.tp_sl_list[k].start_seq
          /\ \E k \in 1..Len(args.tp_sl_list) :
                df[i].high * PctScale >= buy_price * args.tp_sl_list[k].tp_mult
          /\ df[i].is_tp_breached = 0
          /\ \E j \in PathIdx : j > i /\ df[j].is_tp_breached = 1

\* C19: the trailing-stop breach bar is the first bar, in
\* trading_timestamp_sequence order, whose low is at or below the maximum
\* high up to and including it times (1 - ts_pct); the scan stops at that
\* bar and keeps the trigger-sell price computed there.
C19_FirstTrailingBreach ==
    (pc = "resolve" \/ Succeeded) =>
        LET B == {i \in PathIdx : TsBreachAt(i)}
        IN IF B = {}
           THEN ts_breach_row = << >> /\ scan_pos = Len(df)
           ELSE /\ ts_breach_row # << >>
                /\ ts_breach_row[1].trading_timestamp_sequence = SetMin(B) - 1
                /\ ts_breach_row[1].t = df[SetMin(B)].t
                /\ ts_breach_row[1].ts_sell_price
                      = PeakUpTo(SetMin(B)) * (PctScale - args.ts_pct)
                /\ scan_pos = SetMin(B)

\* the scan passed a bar without a breach and stopped at a breach bar
\* although a later bar breaches too
C19_Witness ==
    /\ pc = "resolve"
    /\ ts_breach_row # << >>
    /\ scan_pos > 1
    /\ scan_pos < Len(df)
    /\ \E j \in PathIdx : j > scan_pos /\ TsBreachAt(j)

\* C20: with no breach and no bar where trading_day_sequence is
\* trading_days_limit - 1 and trading_interval_sequence is 0, the exit falls
\* back to the last bar of the path: the trigger is "End of Holding
\* Period", the sell price is that bar's open, and the sequence indices and
\* the sell timestamp are that bar's.
C20_FallbackToLastBar ==
    (/\ Succeeded
     /\ BreachBars = {}
     /\ ~ \E i \in PathIdx : /\ df[i].trading_day_sequence = args.trading_days_limit - 1
                              /\ df[i].trading_interval_sequence = 0)
    => LET n == Len(df)
       IN /\ outcome["trigger"] = "End of Holding Period"
          /\ outcome["sell price"] = df[n].open * PctScale
          /\ outcome["sell_timestamp"] = df[n].t
          /\ outcome["trading_timestamp_sequence"] = n - 1
          /\ outcome["trading_day_sequence"] = df[n].trading_day_sequence
          /\ outcome["trading_interval_sequence"] = df[n].trading_interval_sequence

\* the path ends before day trading_days_limit - 1, has several bars, and
\* its last bar opens at another price than its first
C20_Witness ==
    /\ Succeeded
    /\ BreachBars = {}
    /\ \A i \in PathIdx : df[i].trading_day_sequence < args.trading_days_limit - 1
    /\ Len(df) >= 2
    /\ df[Len(df)].open # df[1].open
    /\ outcome["trading_timestamp_sequence"] = Len(df) - 1

\* the path has been sequenced
PathReady == pc \in {"flag", "scan", "resolve"} \/ Succeeded

\* C21: the opening-minutes exclusion removes the bars before 09:40 of the
\* first retained trading day only; every bar of a later retained day,
\* those before 09:40 included, is in the path, is sequenced, and once the
\* breach columns are set is flagged as the exit rules say.
C21_MorningExclusionFirstDayOnly ==
    (PathReady /\ RetainedDates # {}) =>
        LET retained == RetainedDates
            first_day == SetMin(retained)
            flagged == pc \in {"scan", "resolve", "returned"}
        IN /\ \A b \in BarsAfterPick :
                 (DateOf(b.t) \in retained /\ DateOf(b.t) # first_day) =>
                     \E i \in PathIdx :
                         /\ df[i].t = b.t /\ df[i].open = b.open
                         /\ df[i].high = b.high /\ df[i].low = b.low
                         /\ df[i].trading_timestamp_sequence = i - 1
                         /\ flagged =>
                               /\ df[i].is_tp_breached = 1 <=> TpBreachAt(i)
                               /\ df[i].is_sl_breached = 1 <=> SlBreachAt(i)
           /\ \A i \in PathIdx :
                 DateOf(df[i].t) = first_day => TimeOf(df[i].t) >= MorningCutoff

\* a 09:35 bar of the first day was dropped, a 09:35 bar of a later day is
\* in the path and is the take-profit exit
C21_Witness ==
    /\ Succeeded
    /\ \E b \in BarsAfterPick :
          DateOf(b.t) = SetMin(RetainedDates) /\ TimeOf(b.t) < MorningCutoff
    /\ DateOf(df[ExitIdx].t) # SetMin(RetainedDates)
    /\ TimeOf(df[ExitIdx].t) < MorningCutoff
    /\ outcome["trigger"] = "Take Profit"

\* C22: no bar of the sequenced path falls on a date on or before the pick
\* date, and neither do the buy timestamp and the sell timestamp of a
\* successful outcome.
C22_NothingOnOrBeforePickDate ==
    /\ PathReady =>
          \A i \in PathIdx : DateOf(df[i].t) > to_date(args.pick_date)
    /\ pc \in {"prepare", "flag", "scan", "resolve"} =>
          \A i \in 1..Len(df_ohlc) : df_ohlc[i].date_only > to_date(args.pick_date)
    /\ Succeeded =>
          /\ DateOf(outcome["buy_timestamp"]) > to_date(args.pick_date)
          /\ DateOf(outcome["sell_timestamp"]) > to_date(args.pick_date)

\* the loader delivered a bar of the pick date and a bar of the date before
\* it, and the call succeeded
C22_Witness ==
    /\ Succeeded
    /\ \E b \in LoadedBars : DateOf(b.t) = to_date(args.pick_date)
    /\ \E b \in LoadedBars : DateOf(b.t) < to_date(args.pick_date)

\* C23: trading_timestamp_sequence numbers the path 0..n-1 in ascending
\* time; trading_day_sequence is the 0-based rank of the bar's date among
\* the retained days and does not decrease along the path;
\* trading_interval_sequence is 0 at the first remaining bar of each day and
\* grows by exactly 1 per bar within the day.
C23_Sequencing ==
    PathReady =>
        \A i \in PathIdx :
            /\ df[i].trading_timestamp_sequence = i - 1
            /\ df[i].trading_day_sequence = DayRank(DateOf(df[i].t))
            /\ i > 1 =>
                  /\ df[i - 1].t < df[i].t
                  /\ df[i - 1].trading_day_sequence <= df[i].trading_day_sequence
                  /\ IF DateOf(df[i - 1].t) = DateOf(df[i].t)
                     THEN df[i].trading_interval_sequence
                            = df[i - 1].trading_interval_sequence + 1
                     ELSE df[i].trading_interval_sequence = 0
            /\ i = 1 => df[i].trading_interval_sequence = 0

\* a path of two days whose second day has two bars
C23_Witness ==
    /\ PathReady
    /\ Len(df) >= 3
    /\ df[Len(df)].trading_day_sequence = 1
    /\ df[Len(df)].trading_interval_sequence = 1
    /\ df[1].trading_day_sequence = 0

\* the messages of the three classes of failure
NoBarsMessages == {"No OHLC data returned from Polygon"}
NoTradableDataMessages ==
    {"No data available after the pick date", "Insufficient data after morning exclusion"}
CatchAllMessages == {"Logic error: list index out of range", "Logic error: 'open'"}

\* C24: a provider that returned no bars is reported with the "No OHLC data
\* returned" message; a path with no tradable bar after filtering, or with
\* no retained trading day (trading_days_limit <= 0 included), is reported
\* with a no-tradable-data message of its own and not with the catch-all;
\* "Logic error: <detail>" is left to unexpected computation failures.
C24_ErrorClasses ==
    Failed =>
        /\ (loaded.status = "none" \/ loaded.rows = << >>)
              => outcome["error"] \in NoBarsMessages
        /\ (loaded.rows # << >> /\ ExpectedPath = {})
              => outcome["error"] \in NoTradableDataMessages
        /\ outcome["error"] \in CatchAllMessages
              => (loaded.rows # << >> /\ ExpectedPath # {})

BreachKinds == {"Take Profit", "Stop Loss", "Trailing Stop"}

\* C26: whenever the first bar of the last retained day exists
\* (trading_day_sequence = trading_days_limit - 1 and
\* trading_interval_sequence = 0), every Take Profit, Stop Loss or Trailing
\* Stop outcome has an exit trading_timestamp_sequence at or before that
\* bar's.
C26_BreachNotAfterTimeExit ==
    (Succeeded /\ outcome["trigger"] \in BreachKinds) =>
        \A i \in PathIdx :
            (/\ df[i].trading_day_sequence = args.trading_days_limit - 1
             /\ df[i].trading_interval_sequence = 0)
            => outcome["trading_timestamp_sequence"] <= df[i].trading_timestamp_sequence

\* C27 as stated: for every successful outcome the sell price lies in the
\* exit bar's own range, low <= sell price <= high.
C27_SellPriceInBarRange ==
    Succeeded =>
        /\ df[ExitIdx].low * PctScale <= outcome["sell price"]
        /\ outcome["sell price"] <= df[ExitIdx].high * PctScale

\* C27 amended: the sell price is at least the exit bar's low; for Take
\* Profit, Stop Loss and End of Holding Period it is at most the exit bar's
\* high; a Trailing Stop sell price is at most the running maximum high up
\* to the exit bar times (1 - ts_pct).
C27_SellPriceBounds ==
    Succeeded =>
        /\ df[ExitIdx].low * PctScale <= outcome["sell price"]
        /\ outcome["trigger"] # "Trailing Stop"
              => outcome["sell price"] <= df[ExitIdx].high * PctScale
        /\ outcome["trigger"] = "Trailing Stop"
              => outcome["sell price"] <= PeakUpTo(ExitIdx) * (PctScale - args.ts_pct)

\* a trailing-stop exit at a bar whose high lies below the sell price
C27_Witness ==
    /\ Succeeded
    /\ outcome["trigger"] = "Trailing Stop"
    /\ outcome["sell price"] > df[ExitIdx].high * PctScale
    /\ outcome["sell price"] > df[ExitIdx].low * PctScale

\* C28: with a positive buy price and a ladder whose TP multipliers are
\* above 1 and whose SL multipliers are in (0, 1), a Take Profit outcome has
\* a positive return and a sell price at or above buy price * tp_mult of a
\* rule covering the exit day; a Stop Loss outcome has a negative return and
\* a sell price at or below buy price * sl_mult of such a rule.
C28_ReturnSign ==
    (/\ Succeeded
     /\ outcome["buy price"] > 0
     /\ \A k \in 1..Len(args.tp_sl_list) :
           /\ args.tp_sl_list[k].tp_mult > PctScale
           /\ args.tp_sl_list[k].sl_mult > 0
           /\ args.tp_sl_list[k].sl_mult < PctScale)
    => LET Covers(k) == /\ outcome["trading_day_sequence"] >= args.tp_sl_list[k].start_seq
                        /\ outcome["trading_day_sequence"] <= args.tp_sl_list[k].end_seq
           r == outcome["returns_percentage"]
       IN /\ outcome["trigger"] = "Take Profit" =>
                /\ r.num > 0 /\ r.den > 0
                /\ outcome["sell price"] > outcome["buy price"]
                /\ \E k \in 1..Len(args.tp_sl_list) :
                      /\ Covers(k)
                      /\ outcome["sell price"] * PctScale
                            >= outcome["buy price"] * args.tp_sl_list[k].tp_mult
          /\ outcome["trigger"] = "Stop Loss" =>
                /\ r.num < 0 /\ r.den > 0
                /\ outcome["sell price"] < outcome["buy price"]
                /\ \E k \in 1..Len(args.tp_sl_list) :
                      /\ Covers(k)
                      /\ outcome["sell price"] * PctScale
                            <= outcome["buy price"] * args.tp_sl_list[k].sl_mult

\* a Stop Loss exit at a bar other than the entry bar
C28_Witness ==
    /\ Succeeded
    /\ outcome["trigger"] = "Stop Loss"
    /\ ExitIdx > 1
    /\ outcome["returns_percentage"].num < 0

\* C30: the trigger is "End of Holding Period" only if no bar of the
\* sequenced path, the entry bar and the bars after the reported exit bar
\* included, breaches TP, SL or the trailing stop; whenever a bar breaches,
\* the trigger is one of the three breach kinds.
C30_TimeExitIffNoBreach ==
    Succeeded =>
        /\ outcome["trigger"] = "End of Holding Period" <=> BreachBars = {}
        /\ BreachBars # {} => outcome["trigger"] \in BreachKinds

\* a time exit at a bar that is neither the first nor the last of the path
C30_Witness ==
    /\ Succeeded
    /\ outcome["trigger"] = "End of Holding Period"
    /\ ExitIdx > 1
    /\ ExitIdx < Len(df)

(***************************************************************************)
(* The three-day scenario: trading_days_limit = 3, the ladder               *)
(* [(1.15, 0.90, 0, 1), (1.15, 0.90, 2, 2)], ts_pct = 0.08, and a first    *)
(* bar at 09:40 of the first day after the pick date that opens at 10.00.  *)
(* Prices are in cents.                                                    *)
(***************************************************************************)
ScenarioArgs ==
    [pick_date |-> PickDay,
     tp_sl_list |-> << [tp_mult |-> 115, sl_mult |-> 90, start_seq |-> 0, end_seq |-> 1],
                       [tp_mult |-> 115, sl_mult |-> 90, start_seq |-> 2, end_seq |-> 2] >>,
     trading_days_limit |-> 3,
     ts_pct |-> DefaultTsPct]

ScenarioFirstT == MinutesPerDay + MorningCutoff
\* 09:45 of the first day, 09:40 and 09:45 of the two days after it
ScenarioLaterTs ==
    {MinutesPerDay + 585}
    \cup {d * MinutesPerDay + m : d \in {2, 3}, m \in {MorningCutoff, 585}}

\* bars with low <= open <= high
ScenarioShapes ==
    { [open |-> 1000, high |-> 1000, low |-> 1000],
      [open |-> 1000, high |-> 1000, low |-> 920],
      [open |-> 1000, high |-> 1000, low |-> 880],
      [open |-> 1000, high |-> 1000, low |-> 850],
      [open |-> 1050, high |-> 1100, low |-> 1050],
      [open |-> 1100, high |-> 1150, low |-> 1100],
      [open |-> 1100, high |-> 1160, low |-> 1100] }
ScenarioFirstShapes == {sh \in ScenarioShapes : sh.open = 1000}

\* the timestamps of the bars that follow the first one
ScenarioTimeSets == {U \in SUBSET ScenarioLaterTs : Cardinality(U) <= MaxPathBars - 1}

\* the ascending result list that starts with a bar of shape first at 09:40
\* and goes on with bars of shapes f at the timestamps T
ScenarioResponse(T, first, f) ==
    LET ts == SortedSeq(T)
    IN [kind |-> "results",
        cols |-> FullCols,
        results |-> << [t |-> ScenarioFirstT, open |-> first.open,
                        high |-> first.high, low |-> first.low] >>
                    \o [i \in 1..Len(ts) |->
                          [t |-> ts[i], open |-> f[i].open,
                           high |-> f[i].high, low |-> f[i].low]]]

ScenarioCall ==
    /\ d_pc = "none"
    /\ pc = "idle"
    /\ args' = ScenarioArgs
    /\ pc' = "fetch"
    /\ UNCHANGED << locals, outcome, driverVars, brokerVars, callVars >>

ScenarioFetch ==
    /\ pc = "fetch"
    /\ \E T \in ScenarioTimeSets, first \in ScenarioFirstShapes :
          \E f \in [1..Cardinality(T) -> ScenarioShapes] :
              FetchWith(ScenarioResponse(T, first, f))
    /\ UNCHANGED << args, target_days, df, buy_price, buy_timestamp,
                    maxima, ts_breach_row, scan_pos, driverVars, brokerVars, callVars >>

NextScenario == ScenarioCall \/ ScenarioFetch \/ Prepare \/ Flag \/ ScanStep \/ Resolve

SpecScenario == Init /\ [][NextScenario]_vars

\* the first path bar is the 09:40 bar opening at 10.00
ScenarioEntry ==
    /\ Succeeded
    /\ args = ScenarioArgs
    /\ TimeOf(df[1].t) = MorningCutoff
    /\ df[1].open = 1000
\* bar i is a day-1 bar with high 11.60 and no bar before it has a low at
\* or below 8.50
Day1HighBefore850(i) ==
    /\ DayRank(DateOf(df[i].t)) = 1
    /\ df[i].high = 1160
    /\ \A j \in 1..(i - 1) : df[j].low > 850

\* C13 as stated: in the scenario, every path whose first bar (09:40) opens
\* at 10.00 and in which a day-1 bar has high 11.60 before any bar's low
\* drops to 8.50 ends with trigger "Take Profit", sell price 11.60 and
\* trading_day_sequence 1.
C13_Scenario1AsStated ==
    (ScenarioEntry /\ \E i \in PathIdx : Day1HighBefore850(i)) =>
        /\ outcome["trigger"] = "Take Profit"
        /\ outcome["sell price"] = 1160 * PctScale
        /\ outcome["trading_day_sequence"] = 1

\* C13 amended: the same when, in addition, no bar before that day-1 bar
\* has a high of 11.50 or more, a low of 9.00 or less, or a low at or below
\* 92% of the running maximum high.
C13_Scenario1 ==
    (ScenarioEntry
     /\ \E i \in PathIdx :
           /\ Day1HighBefore850(i)
           /\ \A j \in 1..(i - 1) :
                 /\ df[j].high < 1150
                 /\ df[j].low > 900
                 /\ df[j].low * PctScale > PeakUpTo(j) * (PctScale - 8))
    => /\ outcome["trigger"] = "Take Profit"
       /\ outcome["sell price"] = 1160 * PctScale
       /\ outcome["trading_day_sequence"] = 1

\* the day-1 bar with high 11.60 is the exit, it is the second bar of day 1
\* and a later bar reaches the take-profit level too
C13_Witness ==
    /\ ScenarioEntry
    /\ outcome["trigger"] = "Take Profit"
    /\ outcome["sell price"] = 1160 * PctScale
    /\ outcome["trading_day_sequence"] = 1
    /\ outcome["trading_interval_sequence"] = 1
    /\ \E j \in PathIdx : j > ExitIdx /\ df[j].high >= 1150

\* C14: in the scenario with a buy price of 10.00, every three-day path in
\* which no bar reaches a high of 11.50 or a low of 8.50 and no bar's low is
\* at or below 92% of the running maximum high ends with trigger "End of
\* Holding Period" and sells at the open of the first bar of day 2.
C14_Scenario2 ==
    (/\ ScenarioEntry
     /\ outcome["buy price"] = 1000 * PctScale
     /\ {DayRank(DateOf(df[i].t)) : i \in PathIdx} = {0, 1, 2}
     /\ \A i \in PathIdx :
           /\ df[i].high < 1150
           /\ df[i].low > 850
           /\ df[i].low * PctScale > PeakUpTo(i) * (PctScale - 8))
    => /\ outcome["trigger"] = "End of Holding Period"
       /\ \E i \in PathIdx :
             /\ DayRank(DateOf(df[i].t)) = 2
             /\ \A j \in PathIdx : j < i => DateOf(df[j].t) # DateOf(df[i].t)
             /\ outcome["sell price"] = df[i].open * PctScale

\* a time exit at the first bar of day 2, followed by a bar of day 2 with
\* another open, after the running maximum rose above the buy price
C14_Witness ==
    /\ ScenarioEntry
    /\ outcome["trigger"] = "End of Holding Period"
    /\ outcome["trading_day_sequence"] = 2
    /\ outcome["trading_interval_sequence"] = 0
    /\ ExitIdx < Len(df)
    /\ df[Len(df)].open # df[ExitIdx].open
    /\ PeakUpTo(Len(df)) > 1000

\* C15: get_ohlc_data hands back its bars in ascending timestamp order, and
\* when the provider has no data (the request fails, the response has no
\* results key, or the results list is empty) it hands back an empty or
\* absent result; no exception leaves it.
C15_LoaderAscendingOrAbsent ==
    loaded.status # "uncalled" =>
        /\ loaded.status \in {"none", "frame"}
        /\ \A i, j \in 1..Len(loaded.rows) : i < j => loaded.rows[i].t <= loaded.rows[j].t

(***************************************************************************)
(* The batch driver: main, lines 63-95                                     *)
(***************************************************************************)
\* the frames of line 61: at most MaxRows rows, distinct tickers
RowSets ==
    UNION { { [i \in 1..n |-> [ticker |-> i, date |-> ds[i]]] : ds \in [1..n -> PickDates] }
            : n \in 0..MaxRows }

\* `not outcome.get("error")`
NoError(d) == ("error" \notin DOMAIN d) \/ d["error"] = None \/ d["error"] = ""

\* {**row.to_dict(), **outcome}
Merge(row, d) == d @@ row

DropError_Keep(rs) == rs

\* pd.DataFrame(final_results).drop(columns=['error'], errors='ignore')
DropError(rs) ==
    [i \in 1..Len(rs) |-> [k \in DOMAIN rs[i] \ {"error"} |-> rs[i][k]]]

\* lines 63-69
DriverStart ==
    /\ d_pc = "start"
    /\ IF rows = << >>
       THEN /\ log' = Append(log, [line |-> "No new valid picks found for simulation.", row |-> 0])
            /\ d_pc' = "done"
       ELSE /\ log' = Append(log, [line |-> "Processing", row |-> Len(rows)])
            /\ d_pc' = "loop"
    /\ UNCHANGED << simVars, rows, idx, final_results, exported, brokerVars, callVars >>

\* lines 71-80: the next row is handed to run_simulation
DriverCall ==
    /\ d_pc = "loop"
    /\ idx < Len(rows)
    /\ pc = "idle"
    /\ log' = Append(log, [line |-> "Simulating", row |-> idx + 1])
    /\ args' = [pick_date |-> rows[idx + 1].date,
                tp_sl_list |-> TP_SL_CONFIG,
                trading_days_limit |-> TRADING_DAYS,
                ts_pct |-> DefaultTsPct]
    /\ pc' = "fetch"
    /\ d_pc' = "in_call"
    /\ UNCHANGED << locals, outcome, rows, idx, final_results, exported, brokerVars, callVars >>

\* lines 82-89: the call returned
DriverReturn ==
    /\ d_pc = "in_call"
    /\ pc = "returned"
    /\ IF NoError(outcome)
       THEN /\ final_results' = Append(final_results, Merge(rows[idx + 1], outcome))
            /\ log' = Append(log, [line |-> "Success", row |-> idx + 1])
       ELSE /\ UNCHANGED final_results
            /\ log' = Append(log, [line |-> "Error", row |-> idx + 1])
    /\ idx' = idx + 1
    /\ d_pc' = "loop"
    /\ PopFrame
    /\ UNCHANGED << rows, exported, brokerVars, callVars >>

\* the call raised: nothing in main catches it
DriverAbort ==
    /\ d_pc = "in_call"
    /\ pc = "raised"
    /\ d_pc' = "crashed"
    /\ PopFrame
    /\ UNCHANGED << rows, idx, final_results, exported, log, brokerVars, callVars >>

\* lines 91-95
DriverExport ==
    /\ d_pc = "loop"
    /\ idx = Len(rows)
    /\ IF final_results # << >>
       THEN /\ exported' = DropError(final_results)
            /\ log' = Append(log, [line |-> "Backtest results exported successfully.", row |-> 0])
       ELSE UNCHANGED << exported, log >>
    /\ d_pc' = "done"
    /\ UNCHANGED << simVars, rows, idx, final_results, brokerVars, callVars >>

InitBatch ==
    /\ SimIdle
    /\ BrokerIdle
    /\ CallsIdle
    /\ d_pc = "start"
    /\ rows \in RowSets
    /\ idx = 0
    /\ final_results = << >>
    /\ exported = << >>
    /\ log = << >>

NextBatch ==
    \/ DriverStart \/ DriverCall \/ DriverReturn \/ DriverAbort \/ DriverExport
    \/ Fetch \/ Prepare \/ Flag \/ ScanStep \/ Resolve

SpecBatch == InitBatch /\ [][NextBatch]_vars

\* C9: in a batch, run_simulation is invoked once for every row whatever
\* the earlier rows' results were, every row is reported as a success or an
\* error, and a row is in the results exactly when its outcome had no error.
C9_EveryRowProcessed ==
    d_pc \in {"done", "crashed"} =>
        \A i \in 1..Len(rows) :
            /\ Cardinality({j \in 1..Len(log) : log[j] = [line |-> "Simulating", row |-> i]}) = 1
            /\ Cardinality({j \in 1..Len(log) :
                               log[j].row = i /\ log[j].line \in {"Success", "Error"}}) = 1
            /\ (\E j \in 1..Len(log) : log[j] = [line |-> "Success", row |-> i])
                  <=> (\E j \in 1..Len(final_results) : final_results[j]["ticker"] = i)

\* the names C16 gives to the fields of a successful outcome
ClaimedKeys ==
    {"buy_price", "sell_price", "returns_percentage", "buy_timestamp",
     "sell_timestamp", "trading_timestamp_sequence", "trading_day_sequence",
     "trading_interval_sequence", "trigger", "error"}

\* C16 as stated: the record a successful run_simulation hands to the batch
\* caller has the fields buy_price, sell_price, returns_percentage,
\* buy_timestamp, sell_timestamp, trading_timestamp_sequence,
\* trading_day_sequence, trading_interval_sequence, trigger and error, with
\* error null.
C16_FieldNamesAsStated ==
    (d_pc = "in_call" /\ Succeeded) =>
        /\ DOMAIN outcome = ClaimedKeys
        /\ outcome["error"] = None

\* C16 amended: the record handed to the batch caller has the keys
\* "buy price" and "sell price" (with a space), returns_percentage,
\* buy_timestamp, sell_timestamp, the three sequence indices, trigger and
\* error, with error null; the exported row carries the columns of the pick
\* and every one of these fields except error.
C16_FieldNames ==
    /\ (d_pc = "in_call" /\ Succeeded) =>
          /\ DOMAIN outcome = SuccessKeys
          /\ outcome["error"] = None
    /\ \A i \in 1..Len(final_results) :
          /\ DOMAIN final_results[i] = SuccessKeys \cup DOMAIN rows[1]
          /\ final_results[i]["error"] = None
    /\ \A i \in 1..Len(exported) :
          DOMAIN exported[i] = (SuccessKeys \ {"error"}) \cup DOMAIN rows[1]

\* a batch has exported the row of a successful simulation
C16_Witness ==
    /\ d_pc = "done"
    /\ exported # << >>
    /\ "sell price" \in DOMAIN exported[1]

(***************************************************************************)
(* Forced sales of the paper-trading script:                               *)
(* mda_picks/buy_sell_execution_paper_trading.py,                          *)
(* execute_forced_sales_window and get_positions_with_buy_dates.           *)
(* A Python value used as a dictionary key carries its type: a str and an  *)
(* int are never equal.  Dates are day numbers.                            *)
(***************************************************************************)
PyStr(v) == [type |-> "str", val |-> v]
PyInt(v) == [type |-> "int", val |-> v]
PyEq(a, b) == a.type = b.type /\ a.val = b.val

\* a dict is the sequence of its items; d.get(k) is << >> for None
DictHas(d, k) == \E i \in 1..Len(d) : PyEq(d[i].key, k)
DictGet(d, k) ==
    IF DictHas(d, k)
    THEN << d[CHOOSE i \in 1..Len(d) : PyEq(d[i].key, k)].value >>
    ELSE << >>
DictPut(d, k, v) ==
    IF DictHas(d, k)
    THEN [i \in 1..Len(d) |-> IF PyEq(d[i].key, k) THEN [key |-> k, value |-> v] ELSE d[i]]
    ELSE Append(d, [key |-> k, value |-> v])

\* the loop of lines 88-94 from execution i on
RECURSIVE BuyDatesFrom(_, _, _)
BuyDatesFrom(exs, i, acc) ==
    IF i > Len(exs) THEN acc
    ELSE LET ex == exs[i]
             symbol == PyStr(ex.symbol)
             known == DictGet(acc, symbol)
         IN IF ex.side = "BOT" /\ (known = << >> \/ ex.time < known[1])
            THEN BuyDatesFrom(exs, i + 1, DictPut(acc, symbol, ex.time))
            ELSE BuyDatesFrom(exs, i + 1, acc)

get_positions_with_buy_dates(exs) ==
    LET InAccount(ex) == ex.acctNumber = TARGET_ACCOUNT
    IN BuyDatesFrom(SelectSeq(exs, InAccount), 1, << >>)

\* what the broker may report
Symbols == << "AAA", "BBB", "CCC" >>
Contract(i) == [symbol |-> Symbols[i], conId |-> 265000 + i]
Accounts == {TARGET_ACCOUNT, "DU0000001"}
Today == 10
ExecutionDays == {Today - 5, Today - 2}
\* one position per contract
PositionLists ==
    UNION { [1..n -> {[account |-> a, position |-> q, marketPrice |-> 50] :
                         a \in Accounts, q \in {0, 10}}]
            : n \in 0..MaxPositions }
PositionsOf(ps) ==
    [i \in 1..Len(ps) |->
        [account |-> ps[i].account, contract |-> Contract(i),
         position |-> ps[i].position, marketPrice |-> ps[i].marketPrice]]
ExecutionKinds ==
    {[acctNumber |-> TARGET_ACCOUNT, side |-> sd, symbol |-> Symbols[i], time |-> t] :
        sd \in {"BOT", "SLD"}, i \in 1..MaxPositions, t \in ExecutionDays}
    \cup {[acctNumber |-> "DU0000001", side |-> "BOT", symbol |-> Symbols[i], time |-> t] :
        i \in 1..MaxPositions, t \in ExecutionDays}
ExecutionLists == UNION { [1..n -> ExecutionKinds] : n \in 0..MaxExecutions }

\* lines 159-162
ForcedSalesStart ==
    /\ fs_pc = "start"
    /\ buy_dates' = get_positions_with_buy_dates(executions)
    /\ today' = Today
    /\ pos_idx' = 0
    /\ fs_pc' = "loop"
    /\ UNCHANGED << simVars, driverVars, callVars, positions, executions, orders >>

\* one iteration of the loop of lines 164-177
ForcedSalesStep ==
    /\ fs_pc = "loop"
    /\ pos_idx < Len(positions)
    /\ LET pos == positions[pos_idx + 1]
           buy_date == DictGet(buy_dates, PyInt(pos.contract.conId))
       IN IF pos.account # TARGET_ACCOUNT \/ pos.position <= 0
          THEN UNCHANGED orders
          ELSE IF buy_date = << >>
          THEN UNCHANGED orders
          ELSE IF (today - buy_date[1]) + 1 >= ForcedSaleDay
          THEN orders' = Append(orders,
                   [contract |-> pos.contract, action |-> "SELL",
                    totalQuantity |-> pos.position,
                    lmtPrice |-> pos.marketPrice * 99])
          ELSE UNCHANGED orders
    /\ pos_idx' = pos_idx + 1
    /\ UNCHANGED << simVars, driverVars, callVars, fs_pc, positions, executions, buy_dates, today >>

\* the loop is exhausted and the function returns
ForcedSalesReturn ==
    /\ fs_pc = "loop"
    /\ pos_idx = Len(positions)
    /\ fs_pc' = "done"
    /\ UNCHANGED << simVars, driverVars, callVars, positions, executions, buy_dates, today,
                    pos_idx, orders >>

InitForced ==
    /\ SimIdle
    /\ CallsIdle
    /\ d_pc = "none"
    /\ rows = << >>
    /\ idx = 0
    /\ final_results = << >>
    /\ exported = << >>
    /\ log = << >>
    /\ fs_pc = "start"
    /\ \E ps \in PositionLists : positions = PositionsOf(ps)
    /\ executions \in ExecutionLists
    /\ buy_dates = << >>
    /\ today = 0
    /\ pos_idx = 0
    /\ orders = << >>

NextForced == ForcedSalesStart \/ ForcedSalesStep \/ ForcedSalesReturn

SpecForced == InitForced /\ [][NextForced]_vars

\* the BOT executions of the target account for a symbol
BotDays(symbol) ==
    {executions[j].time : j \in {k \in 1..Len(executions) :
        /\ executions[k].acctNumber = TARGET_ACCOUNT
        /\ executions[k].side = "BOT"
        /\ executions[k].symbol = symbol}}

\* C17: when execute_forced_sales_window has run, every position of the
\* target account with positive quantity whose holding day (days since its
\* earliest BOT execution, the buy day being day 1) is 6 or more has a SELL
\* order for its full quantity.
C17_ForcedExit ==
    fs_pc = "done" =>
        \A i \in 1..Len(positions) :
            (/\ positions[i].account = TARGET_ACCOUNT
             /\ positions[i].position > 0
             /\ BotDays(positions[i].contract.symbol) # {}
             /\ (today - SetMin(BotDays(positions[i].contract.symbol))) + 1 >= 6)
            => \E k \in 1..Len(orders) :
                  /\ orders[k].contract = positions[i].contract
                  /\ orders[k].action = "SELL"
                  /\ orders[k].totalQuantity = positions[i].position

(***************************************************************************)
(* A series of calls of run_simulation in one process.  The first          *)
(* completed call is kept for comparison.  A new call starts with the      *)
(* values its predecessor left in the locals: each local is assigned       *)
(* before it is read, which is what makes a call independent of the ones   *)
(* before it.                                                              *)
(***************************************************************************)
RuleWide == [tp_mult |-> 125, sl_mult |-> 80, start_seq |-> 0, end_seq |-> 1]
RuleDay1 == [tp_mult |-> 115, sl_mult |-> 90, start_seq |-> 1, end_seq |-> 1]
\* one ladder, the same rules in the other order, and with a rule repeated
SeriesLadders ==
    { << RuleWide, RuleDay1 >>, << RuleDay1, RuleWide >>, << RuleWide, RuleDay1, RuleWide >> }
SeriesArgs ==
    { [pick_date |-> PickDay, tp_sl_list |-> l, trading_days_limit |-> 2,
       ts_pct |-> DefaultTsPct] : l \in SeriesLadders }

\* a bar at 09:40 of date 1, alone or followed by a bar at 09:40 of date 2
SeriesFirstShapes ==
    { [open |-> 100, high |-> 100, low |-> 100], [open |-> 120, high |-> 120, low |-> 120] }
SeriesSecondShapes ==
    { [open |-> 100, high |-> 100, low |-> 100], [open |-> 100, high |-> 120, low |-> 85],
      [open |-> 100, high |-> 110, low |-> 95] }
SeriesBar(t, sh) == [t |-> t, open |-> sh.open, high |-> sh.high, low |-> sh.low]
SeriesResponses ==
    { [kind |-> "no_results_key", results |-> << >>, cols |-> {}] }
    \cup { [kind |-> "results", cols |-> FullCols,
            results |-> << SeriesBar(MinutesPerDay + MorningCutoff, a) >>] :
            a \in SeriesFirstShapes }
    \cup { [kind |-> "results", cols |-> FullCols,
            results |-> << SeriesBar(MinutesPerDay + MorningCutoff, a),
                           SeriesBar(2 * MinutesPerDay + MorningCutoff, b) >>] :
            a \in SeriesFirstShapes, b \in SeriesSecondShapes }

\* the next call of the series
SeriesCall ==
    /\ d_pc = "none"
    /\ fs_pc = "none"
    /\ pc = "idle"
    /\ calls < MaxCalls
    /\ \E a \in SeriesArgs : args' = a
    /\ calls' = calls + 1
    /\ pc' = "fetch"
    /\ UNCHANGED << locals, outcome, driverVars, brokerVars, ref_call >>

SeriesFetch ==
    /\ fs_pc = "none"
    /\ calls > 0
    /\ pc = "fetch"
    /\ \E resp \in SeriesResponses : FetchWith(resp)
    /\ UNCHANGED << args, target_days, df, buy_price, buy_timestamp,
                    maxima, ts_breach_row, scan_pos, driverVars, brokerVars, callVars >>

\* the caller has the result; the first one of the series is kept
SeriesReturn ==
    /\ calls > 0
    /\ pc \in {"returned", "raised"}
    /\ ref_call' = IF ref_call = << >>
                   THEN << [args |-> args, loaded |-> loaded, pc |-> pc, outcome |-> outcome] >>
                   ELSE ref_call
    /\ pc' = "idle"
    /\ UNCHANGED << args, locals, outcome, driverVars, brokerVars, calls >>

NextSeries ==
    SeriesCall \/ SeriesFetch \/ Prepare \/ Flag \/ ScanStep \/ Resolve \/ SeriesReturn

SpecSeries == Init /\ [][NextSeries]_vars

\* a later call of the series has ended
LaterCallEnded == pc \in {"returned", "raised"} /\ ref_call # << >>
Rules(l) == {l[k] : k \in 1..Len(l)}

\* C25: two calls with the same arguments and the same bars from the loader
\* end in the same way with the same outcome, whichever calls ran before
\* or between them, and a call leaves the ladder it was given unchanged.
C25_Stateless ==
    /\ [](( /\ LaterCallEnded
            /\ args = ref_call[1].args
            /\ loaded = ref_call[1].loaded)
          => /\ pc = ref_call[1].pc
             /\ outcome = ref_call[1].outcome)
    /\ [][(pc # "idle" /\ pc' # "idle") => args'.tp_sl_list = args.tp_sl_list]_vars

\* the third call of a series repeats the first one, which ended by
\* trailing stop
C25_Witness ==
    /\ LaterCallEnded
    /\ calls >= 3
    /\ args = ref_call[1].args
    /\ loaded = ref_call[1].loaded
    /\ Succeeded
    /\ outcome["trigger"] = "Trailing Stop"

\* C29: two calls whose ladders hold the same rules, in another order or
\* with a rule repeated, and which agree on the other arguments and on the
\* bars, return the same outcome.
C29_LadderOrderIrrelevant ==
    (/\ LaterCallEnded
     /\ Rules(args.tp_sl_list) = Rules(ref_call[1].args.tp_sl_list)
     /\ args.pick_date = ref_call[1].args.pick_date
     /\ args.trading_days_limit = ref_call[1].args.trading_days_limit
     /\ args.ts_pct = ref_call[1].args.ts_pct
     /\ loaded = ref_call[1].loaded)
    => /\ pc = ref_call[1].pc
       /\ outcome = ref_call[1].outcome

\* a take-profit exit on day 1 under a ladder that lists the rules of the
\* first call in the other order
C29_Witness ==
    /\ LaterCallEnded
    /\ loaded = ref_call[1].loaded
    /\ Len(args.tp_sl_list) = Len(ref_call[1].args.tp_sl_list)
    /\ args.tp_sl_list # ref_call[1].args.tp_sl_list
    /\ Succeeded
    /\ outcome["trigger"] = "Take Profit"
    /\ outcome["trading_day_sequence"] = 1

====
